---- MODULE Spec2Model ----
(***************************************************************************)
(* Model of taisti_linker: the label index built by OntologyParser, the    *)
(* similarity measures of SimilarityCalculator and the batch linker        *)
(* EntityLinker.link_all / EntityLinker.link.                              *)
(*                                                                         *)
(* Texts are sequences of words.  Scores are rationals <<num, den>> with   *)
(* den > 0, so that comparisons with the threshold are exact.  An optional *)
(* value (Python None or a value) is a sequence of length 0 or 1.          *)
(***************************************************************************)
EXTENDS Integers, Sequences, FiniteSets, TLC

VARIABLES
    ontology,                   \* root category -> (label, iri) pairs in traversal order
    enabled_warnings,           \* OntologyParser.enabled_warnings
    warnings,                   \* WARNING lines printed by the index builder
    normalized_label_mapping,   \* EntityLinker.normalized_label_mapping
    similarity_measure,         \* EntityLinker.similarity_measure
    min_acceptable_similarity,  \* EntityLinker.min_acceptable_similarity
    ignore_not_linkable,        \* EntityLinker.ignore_not_linkable
    cache,                      \* EntityLinker.cache
    annotations,                \* the annotations link_all has iterated over so far
    rows,                       \* the rows written to the CSV report
    log,                        \* per annotation: the path taken and the strategy calls made
    first_repr,                 \* first argument of a direct call of calculate
    second_repr,                \* second argument of a direct call of calculate
    similarity,                 \* outcome of that call, None before it
    pc                          \* "parse", "built", "link", "crashed",
                                \* "calculate" or "calculated"

vars == <<ontology, enabled_warnings, warnings, normalized_label_mapping,
          similarity_measure, min_acceptable_similarity, ignore_not_linkable,
          cache, annotations, rows, log, first_repr, second_repr, similarity,
          pc>>

----------------------------------------------------------------------------
(* Bounds *)

\* longest batch of annotations link_all iterates over
MaxMentions == 2
\* longest sequence of (label, iri) pairs under one taxonomy root
MaxPairs == 2

----------------------------------------------------------------------------
(* Optional values and rationals *)

None == <<>>
Some(v) == <<v>>

Range(s) == {s[i] : i \in 1..Len(s)}

SeqsUpTo(S, n) == UNION {[1..k -> S] : k \in 0..n}

Q(n, d) == <<n, d>>
Gt(a, b) == a[1] * b[2] > b[1] * a[2]
Ge(a, b) == a[1] * b[2] >= b[1] * a[2]
EqQ(a, b) == a[1] * b[2] = b[1] * a[2]
AddQ(a, b) == Q(a[1] * b[2] + b[1] * a[2], a[2] * b[2])
One == Q(1, 1)

----------------------------------------------------------------------------
(* commons.py *)

EntityType == {"FOOD", "UNIT", "QUANTITY", "PROCESS", "COLOR",
               "PHYSICAL_QUALITY", "DIET", "PART", "PURPOSE", "TASTE"}

\* str.lower() on the category strings of the model
LowerCategory(category) ==
    CASE category = "FOOD" -> "food"
      [] category = "Process" -> "process"
      [] OTHER -> category

get_entity_type(category) ==
    LET c == LowerCategory(category)
    IN  IF c \in {"food", "food_product", "possible_substite", "example",
                  "trade_name", "excluded", "exclusive"} THEN "FOOD"
        ELSE IF c = "unit" THEN "UNIT"
        ELSE IF c = "quantity" THEN "QUANTITY"
        ELSE IF c = "process" THEN "PROCESS"
        ELSE IF c = "color" THEN "COLOR"
        ELSE IF c = "physical_quality" THEN "PHYSICAL_QUALITY"
        ELSE IF c = "diet" THEN "DIET"
        ELSE IF c = "part" THEN "PART"
        ELSE IF c = "purpose" THEN "PURPOSE"
        ELSE IF c = "taste" THEN "TASTE"
        ELSE "FOOD"

LabelWithIRI(label, iri, normalized_label, similarity_representation) ==
    [label |-> label, iri |-> iri, normalized_label |-> normalized_label,
     similarity_representation |-> similarity_representation]

----------------------------------------------------------------------------
(* text_processor.py *)

stopwords == {"the", "a", "an", "at", "by", "for", "in", "into", "on", "to"}

\* re.sub(r"\(whole\)", "", text) and re.sub(r"[^a-zA-Z]", " ", text): a word
\* without letters left disappears in the later split
Letters(w) ==
    CASE w = "(whole)" -> ""
      [] w = "2" -> ""
      [] OTHER -> w

\* str.lower() on the words of the model
Lower(w) ==
    CASE w = "Onion" -> "onion"
      [] w = "Onions" -> "onions"
      [] w = "Diced" -> "diced"
      [] w = "The" -> "the"
      [] OTHER -> w

\* PorterStemmer.stem on the words of the model
Stem(w) ==
    CASE w = "onions" -> "onion"
      [] w = "diced" -> "dice"
      [] OTHER -> w

RECURSIVE normalize_text(_)
normalize_text(text) ==
    IF text = <<>> THEN <<>>
    ELSE LET w == Lower(Letters(Head(text)))
             rest == normalize_text(Tail(text))
         IN  IF w = "" \/ w \in stopwords THEN rest ELSE <<Stem(w)>> \o rest

----------------------------------------------------------------------------
(* similarity_calculator.py *)

SimilarityType == {"JACCARD", "EVERYGRAM", "WORDNET"}

\* nltk.util.everygrams: every contiguous n-gram, n from 1 to the token count
everygrams(tokens) ==
    {SubSeq(tokens, i, j) : i \in 1..Len(tokens), j \in 1..Len(tokens)} \ {<<>>}

_jaccard_preprocess(text) == Range(text)

_everygrams_preprocess(text) == everygrams(text)

\* nltk.pos_tag on the normalized words of the model
pos_tag(word) ==
    CASE word = "onion" -> "NN"
      [] word = "dice" -> "VB"
      [] OTHER -> "DT"

_penn_to_wn(tag) ==
    CASE tag \in {"NN", "NNS"} -> Some("n")
      [] tag \in {"VB", "VBD"} -> Some("v")
      [] tag \in {"JJ"} -> Some("a")
      [] tag \in {"RB"} -> Some("r")
      [] OTHER -> None

\* wn.synsets(word, wn_tag)[0], None when the lookup raises
_tagged_to_synset(word, tag) ==
    LET wn_tag == _penn_to_wn(tag)
    IN  IF wn_tag = None THEN None
        ELSE IF word = "onion" /\ wn_tag = Some("n") THEN Some("onion.n.01")
        ELSE IF word = "dice" /\ wn_tag = Some("v") THEN Some("dice.v.01")
        ELSE None

RECURSIVE _wordnet_preprocess(_)
_wordnet_preprocess(text) ==
    IF text = <<>> THEN <<>>
    ELSE LET ss == _tagged_to_synset(Head(text), pos_tag(Head(text)))
         IN  ss \o _wordnet_preprocess(Tail(text))

\* Synset.path_similarity: None when no path joins the two synsets (a noun
\* and a verb live in separate hierarchies)
path_similarity(s1, s2) ==
    IF s1 = s2 THEN Some(One) ELSE None

Raised == [raised |-> TRUE]
Returned(v) == [raised |-> FALSE, value |-> v]

\* a variant of _jaccard without the test for an empty set
_jaccardUnguarded(a, b) ==
    IF Cardinality(a \cup b) = 0 THEN Raised
    ELSE Returned(Q(Cardinality(a \cap b), Cardinality(a \cup b)))

_jaccard(a, b) ==
    IF Cardinality(a) = 0 \/ Cardinality(b) = 0 THEN Returned(Q(0, 1))
    ELSE Returned(Q(Cardinality(a \cap b), Cardinality(a \cup b)))

_everygrams(a, b) ==
    IF Cardinality(a) = 0 \/ Cardinality(b) = 0 THEN Returned(Q(0, 1))
    ELSE Returned(Q(Cardinality(a \cap b), Cardinality(a \cup b)))

RECURSIVE MaxQ(_)
MaxQ(s) ==
    IF Len(s) = 1 THEN s[1]
    ELSE LET m == MaxQ(Tail(s)) IN IF Gt(m, s[1]) THEN m ELSE s[1]

\* max([synset.path_similarity(ss) for ss in synsets2]): ValueError on an
\* empty list, TypeError when None is compared, the element itself (None
\* included) for a list of one
BestScore(synset, synsets2) ==
    LET sims == [i \in 1..Len(synsets2) |-> path_similarity(synset, synsets2[i])]
    IN  IF Len(sims) = 0 THEN Raised
        ELSE IF Len(sims) = 1 THEN Returned(sims[1])
        ELSE IF \E i \in 1..Len(sims) : sims[i] = None THEN Raised
        ELSE Returned(Some(MaxQ([i \in 1..Len(sims) |-> sims[i][1]])))

RECURSIVE WordnetLoop(_, _, _, _)
WordnetLoop(synsets1, synsets2, score, count) ==
    IF synsets1 = <<>>
    THEN IF count = 0 THEN Raised
         ELSE Returned(Q(score[1], score[2] * count))
    ELSE LET best_score == BestScore(Head(synsets1), synsets2)
         IN  IF best_score.raised THEN Raised
             ELSE IF best_score.value = None
             THEN WordnetLoop(Tail(synsets1), synsets2, score, count)
             ELSE WordnetLoop(Tail(synsets1), synsets2,
                              AddQ(score, best_score.value[1]), count + 1)

_wordnet(synsets1, synsets2) == WordnetLoop(synsets1, synsets2, Q(0, 1), 0)

calculate(repr_a, repr_b) ==
    CASE similarity_measure = "JACCARD" -> _jaccard(repr_a, repr_b)
      [] similarity_measure = "EVERYGRAM" -> _everygrams(repr_a, repr_b)
      [] similarity_measure = "WORDNET" -> _wordnet(repr_a, repr_b)

preprocess(text) ==
    CASE similarity_measure = "JACCARD" -> _jaccard_preprocess(text)
      [] similarity_measure = "EVERYGRAM" -> _everygrams_preprocess(text)
      [] similarity_measure = "WORDNET" -> _wordnet_preprocess(text)

\* Python truthiness of a representation held in an optional: None, an empty
\* set and an empty list are all falsy
Truthy(rep) ==
    /\ rep # None
    /\ IF similarity_measure = "WORDNET" THEN Len(rep[1]) > 0
       ELSE Cardinality(rep[1]) > 0

----------------------------------------------------------------------------
(* ontology_parser.py *)

\* the keys of OntologyParser.type_to_root_entity
type_to_root_entity == {"FOOD", "PROCESS"}

\* position of a key in an insertion-ordered dict, 0 when absent
IndexOf(result, normalized_label) ==
    IF \E i \in 1..Len(result) : result[i].normalized_label = normalized_label
    THEN CHOOSE i \in 1..Len(result) : result[i].normalized_label = normalized_label
    ELSE 0

HasKey(result, normalized_label) == IndexOf(result, normalized_label) # 0

\* a variant of DictSet that keeps the record already stored under the key
DictSetKeepFirst(result, record) ==
    IF HasKey(result, record.normalized_label) THEN result
    ELSE Append(result, record)

\* result[normalized_label] = LabelWithIRI(...): a dict keeps a key at the
\* position of its first insertion and replaces the value
DictSet(result, record) ==
    IF HasKey(result, record.normalized_label)
    THEN [result EXCEPT ![IndexOf(result, record.normalized_label)] = record]
    ELSE Append(result, record)

RECURSIVE LabelLoop(_, _, _)
LabelLoop(pairs, result, printed) ==
    IF pairs = <<>> THEN [result |-> result, printed |-> printed]
    ELSE LET label == Head(pairs)[1]
             iri == Head(pairs)[2]
             normalized_label == normalize_text(label)
             warn == enabled_warnings /\ HasKey(result, normalized_label)
         IN  LabelLoop(Tail(pairs),
                       DictSet(result, LabelWithIRI(label, iri, normalized_label, None)),
                       IF warn THEN Append(printed, normalized_label) ELSE printed)

get_IRI_labels_data(category) == LabelLoop(ontology[category], <<>>, <<>>)

\* a variant of get_IRI_labels_data_per_category that gives every category a
\* key, with an empty sub-map for a category without a root
get_IRI_labels_data_per_categoryAllTypes ==
    [entity_type \in EntityType |->
        IF entity_type \in type_to_root_entity
        THEN get_IRI_labels_data(entity_type).result ELSE <<>>]

get_IRI_labels_data_per_category ==
    [entity_type \in {e \in EntityType : e \in type_to_root_entity} |->
        get_IRI_labels_data(entity_type).result]

\* the WARNING lines of one build, in the order the categories are built
\* (EntityType order: FOOD before PROCESS)
BuildWarnings ==
    get_IRI_labels_data("FOOD").printed \o get_IRI_labels_data("PROCESS").printed

----------------------------------------------------------------------------
(* entity_linker.py: EntityLinker.link *)

\* a variant of Accepts with a strict comparison against the running best
AcceptsFirstWins(current_label_similarity, max_similarity) ==
    /\ Gt(current_label_similarity, min_acceptable_similarity)
    /\ Gt(current_label_similarity, max_similarity)

\* a variant of Accepts that accepts a score equal to the threshold
AcceptsAtThreshold(current_label_similarity, max_similarity) ==
    /\ Ge(current_label_similarity, min_acceptable_similarity)
    /\ Ge(current_label_similarity, max_similarity)

\* the condition under which the running best is replaced
Accepts(current_label_similarity, max_similarity) ==
    /\ Gt(current_label_similarity, min_acceptable_similarity)
    /\ Ge(current_label_similarity, max_similarity)

\* a variant of IsPerfect that never stops the scan
IsPerfectNever(current_label_similarity) == FALSE

\* current_label_similarity == 1.0
IsPerfect(current_label_similarity) == EqQ(current_label_similarity, One)

\* The for loop of link over category_label_mapping.items(), from position i.
\* items: the sub-map with the representations stored so far; best_item: an
\* optional position; preprocessed: the texts preprocess was called on;
\* scores: the scores calculate returned, in scan order.
RECURSIVE ScanLoop(_, _, _, _, _, _, _)
ScanLoop(items, i, text_preprocessed, best_item, max_similarity, preprocessed, scores) ==
    IF i > Len(items)
    THEN [raised |-> FALSE, items |-> items, best_item |-> best_item,
          preprocessed |-> preprocessed, scores |-> scores]
    ELSE LET item == items[i]
             fresh == ~Truthy(item.similarity_representation)
             rep == IF fresh THEN Some(preprocess(item.normalized_label))
                    ELSE item.similarity_representation
             items2 == [items EXCEPT ![i].similarity_representation = rep]
             preprocessed2 == IF fresh THEN Append(preprocessed, item.normalized_label)
                              ELSE preprocessed
             sim == calculate(text_preprocessed, rep[1])
         IN  IF sim.raised
             THEN [raised |-> TRUE, items |-> items2, best_item |-> best_item,
                   preprocessed |-> preprocessed2, scores |-> scores]
             ELSE LET current_label_similarity == sim.value
                      take == Accepts(current_label_similarity, max_similarity)
                      best2 == IF take THEN Some(i) ELSE best_item
                      max2 == IF take THEN current_label_similarity ELSE max_similarity
                      scores2 == Append(scores, current_label_similarity)
                  IN  IF IsPerfect(current_label_similarity)
                      THEN [raised |-> FALSE, items |-> items2, best_item |-> best2,
                            preprocessed |-> preprocessed2, scores |-> scores2]
                      ELSE ScanLoop(items2, i + 1, text_preprocessed, best2, max2,
                                    preprocessed2, scores2)

\* A linked item is a reference to a record of the index: <<entity_type,
\* normalized_label>> held in an optional.  ScanResult is what link returns
\* and leaves behind after the scan r of the sub-map of entity_type.
ScanResult(entity_type, r) ==
    [raised |-> r.raised,
     mapping |-> [normalized_label_mapping EXCEPT ![entity_type] = r.items],
     linked_item |-> IF r.best_item = None THEN None
                     ELSE Some(<<entity_type, r.items[r.best_item[1]].normalized_label>>),
     preprocessed |-> r.preprocessed, scores |-> r.scores]

link(text, entity_type) ==
    IF entity_type \notin DOMAIN normalized_label_mapping
    THEN [raised |-> FALSE, mapping |-> normalized_label_mapping, linked_item |-> None,
          preprocessed |-> <<>>, scores |-> <<>>]
    ELSE ScanResult(entity_type,
                    ScanLoop(normalized_label_mapping[entity_type], 1, preprocess(text),
                             None, Q(-1, 1), <<text>>, <<>>))

----------------------------------------------------------------------------
(* entity_linker.py: EntityLinker.link_all *)

\* a variant of DirectMatch that lets a memoized text take the memo path
DirectMatchAfterCache(entity_type, normalized_entity_text) ==
    /\ entity_type \in DOMAIN normalized_label_mapping
    /\ HasKey(normalized_label_mapping[entity_type], normalized_entity_text)
    /\ normalized_entity_text \notin DOMAIN cache

\* a variant of DirectMatch without the exact-match path
DirectMatchNever(entity_type, normalized_entity_text) == FALSE

\* entity_type in self.normalized_label_mapping and
\* normalized_entity_text in self.normalized_label_mapping[entity_type]
DirectMatch(entity_type, normalized_entity_text) ==
    /\ entity_type \in DOMAIN normalized_label_mapping
    /\ HasKey(normalized_label_mapping[entity_type], normalized_entity_text)

\* a variant of InCache that never finds the text
InCacheNever(normalized_entity_text) == FALSE

\* normalized_entity_text in self.cache
InCache(normalized_entity_text) == normalized_entity_text \in DOMAIN cache

\* self.cache[normalized_entity_text] = linked_item
CacheSet(normalized_entity_text, linked_item) ==
    [t \in DOMAIN cache \cup {normalized_entity_text} |->
        IF t = normalized_entity_text THEN linked_item ELSE cache[t]]

\* The else branch of link_all for a text that is not memoized: r is what
\* link did; the decision is memoized unless link raised.
LinkPath(normalized_entity_text, r) ==
    [path |-> "link", raised |-> r.raised, linked_item |-> r.linked_item,
     mapping |-> r.mapping,
     cache |-> IF r.raised THEN cache
               ELSE CacheSet(normalized_entity_text, r.linked_item),
     cache_ops |-> IF r.raised THEN <<"contains">> ELSE <<"contains", "set">>,
     preprocessed |-> r.preprocessed, scores |-> r.scores]

\* The body of the loop of link_all up to the decision: which of the three
\* paths is taken, the decision, and what the path did to the index, to the
\* memo and with the similarity strategy.
Decide(entity_type, normalized_entity_text) ==
    IF DirectMatch(entity_type, normalized_entity_text)
    THEN [path |-> "direct", raised |-> FALSE,
          linked_item |-> Some(<<entity_type, normalized_entity_text>>),
          mapping |-> normalized_label_mapping, cache |-> cache,
          cache_ops |-> <<>>, preprocessed |-> <<>>, scores |-> <<>>]
    ELSE IF ~InCache(normalized_entity_text)
    THEN LinkPath(normalized_entity_text, link(normalized_entity_text, entity_type))
    ELSE [path |-> "cache", raised |-> FALSE,
          linked_item |-> cache[normalized_entity_text],
          mapping |-> normalized_label_mapping, cache |-> cache,
          cache_ops |-> <<"contains", "get">>, preprocessed |-> <<>>, scores |-> <<>>]

\* the record a linked item refers to
Record(ref) == LET sub == normalized_label_mapping[ref[1]] IN sub[IndexOf(sub, ref[2])]

\* writer.writerow(...): the row of one annotation, None when none is written
Row(id, annotation, linked_item) ==
    IF linked_item # None
    THEN Some([id |-> id, category |-> annotation.category, text |-> annotation.text,
               iri |-> Record(linked_item[1]).iri, label |-> Record(linked_item[1]).label])
    ELSE IF ~ignore_not_linkable
    THEN Some([id |-> id, category |-> annotation.category, text |-> annotation.text,
               iri |-> "NONE", label |-> <<"NONE">>])
    ELSE None

----------------------------------------------------------------------------
(* Inputs *)

\* Annotation.category as the readers deliver it
AnnotationCategories == {"FOOD", "Process", "unit"}

\* Annotation.text, one word per element
AnnotationTexts ==
    {<<"the">>, <<"Onions">>, <<"Onions", "diced">>, <<"Onions", "diced", "Onions">>}

Annotations == [category : AnnotationCategories, text : AnnotationTexts]

\* (label, iri) pairs under the FOOD root
FoodPairs ==
    {<<<<"Onion">>, "X">>, <<<<"onions", "diced">>, "Y">>, <<<<"Diced", "onion">>, "Z">>}

\* (label, iri) pairs under the PROCESS root; the label normalizes to the
\* empty text
ProcessPairs == {<<<<"The">>, "W">>}

\* (label, iri) pairs for the index builder run on its own: labels that
\* collide after normalization, under either of two concepts
BuildLabels == {<<"Onion">>, <<"onions", "(whole)">>, <<"Diced", "onion">>, <<"The">>}
BuildPairs == BuildLabels \X {"X", "Y"}
BuildProcessPairs == {<<<<"diced">>, "P">>, <<<<"Diced", "2">>, "Q">>}

\* min_acceptable_similarity: the default 0.5 and the extreme 1.0
Thresholds == {Q(1, 2), Q(1, 1)}

EmptyCache == [t \in {} |-> None]

\* the token universe of the representations handed to calculate directly
Tokens == {"onion", "dice", "salt"}

\* the n-gram universe: every n-gram of the two orders of two tokens
GramTexts == {<<"onion", "dice">>, <<"dice", "onion">>}
Grams == UNION {everygrams(t) : t \in GramTexts}

\* the measures whose representations are sets
SetMeasures == {"JACCARD", "EVERYGRAM"}

\* every representation of a measure over its universe: Set[str] for
\* JACCARD, a set of n-grams for EVERYGRAM
Representations(measure) ==
    IF measure = "JACCARD" THEN SUBSET Tokens ELSE SUBSET Grams

----------------------------------------------------------------------------
(* The batch linker: the state after EntityLinker.__init__, then one action *)
(* per annotation of link_all's loop.                                      *)

Init ==
    /\ \E food \in SeqsUpTo(FoodPairs, MaxPairs),
          process \in {<<p>> : p \in ProcessPairs} :
            ontology = [e \in type_to_root_entity |->
                           IF e = "FOOD" THEN food ELSE process]
    /\ enabled_warnings = FALSE
    /\ warnings = BuildWarnings
    /\ normalized_label_mapping = get_IRI_labels_data_per_category
    /\ similarity_measure \in SimilarityType
    /\ min_acceptable_similarity \in Thresholds
    /\ ignore_not_linkable \in BOOLEAN
    /\ cache = EmptyCache
    /\ annotations = <<>>
    /\ rows = <<>>
    /\ log = <<>>
    /\ first_repr = {}
    /\ second_repr = {}
    /\ similarity = None
    /\ pc = "link"

\* what link_all leaves behind for one annotation, d being its decision
Effects(annotation, entity_type, normalized_entity_text, d) ==
    /\ annotations' = Append(annotations, annotation)
    /\ normalized_label_mapping' = d.mapping
    /\ cache' = d.cache
    /\ log' = Append(log, [entity_type |-> entity_type,
                           text |-> normalized_entity_text,
                           path |-> d.path, raised |-> d.raised,
                           linked_item |-> d.linked_item,
                           cache_ops |-> d.cache_ops,
                           preprocessed |-> d.preprocessed,
                           scores |-> d.scores])
    /\ rows' = IF d.raised THEN rows
               ELSE rows \o Row(Len(annotations) + 1, annotation, d.linked_item)
    /\ pc' = IF d.raised THEN "crashed" ELSE "link"

LinkAnnotation(annotation) ==
    /\ pc = "link"
    /\ Len(annotations) < MaxMentions
    /\ Effects(annotation, get_entity_type(annotation.category),
               normalize_text(annotation.text),
               Decide(get_entity_type(annotation.category),
                      normalize_text(annotation.text)))
    /\ UNCHANGED <<ontology, enabled_warnings, warnings, similarity_measure,
                   min_acceptable_similarity, ignore_not_linkable,
                   first_repr, second_repr, similarity>>

Next == \E annotation \in Annotations : LinkAnnotation(annotation)

Spec == Init /\ [][Next]_vars

----------------------------------------------------------------------------
(* The index builder on its own: OntologyParser over any ontology view.    *)

InitBuild ==
    /\ \E food \in SeqsUpTo(BuildPairs, MaxPairs),
          process \in SeqsUpTo(BuildProcessPairs, MaxPairs) :
            ontology = [e \in type_to_root_entity |->
                           IF e = "FOOD" THEN food ELSE process]
    /\ enabled_warnings \in BOOLEAN
    /\ warnings = <<>>
    /\ normalized_label_mapping = <<>>
    /\ similarity_measure = "JACCARD"
    /\ min_acceptable_similarity = Q(1, 2)
    /\ ignore_not_linkable = FALSE
    /\ cache = EmptyCache
    /\ annotations = <<>>
    /\ rows = <<>>
    /\ log = <<>>
    /\ first_repr = {}
    /\ second_repr = {}
    /\ similarity = None
    /\ pc = "parse"

Build ==
    /\ pc = "parse"
    /\ normalized_label_mapping' = get_IRI_labels_data_per_category
    /\ warnings' = BuildWarnings
    /\ pc' = "built"
    /\ UNCHANGED <<ontology, enabled_warnings, similarity_measure,
                   min_acceptable_similarity, ignore_not_linkable, cache,
                   annotations, rows, log, first_repr, second_repr, similarity>>

NextBuild == Build

SpecBuild == InitBuild /\ [][NextBuild]_vars

----------------------------------------------------------------------------
(* The similarity strategy on its own: one call of calculate on any pair   *)
(* of representations of a set measure.                                    *)

InitCalculate ==
    /\ ontology = [e \in type_to_root_entity |-> <<>>]
    /\ enabled_warnings = FALSE
    /\ warnings = <<>>
    /\ normalized_label_mapping = <<>>
    /\ similarity_measure \in SetMeasures
    /\ min_acceptable_similarity = Q(1, 2)
    /\ ignore_not_linkable = FALSE
    /\ cache = EmptyCache
    /\ annotations = <<>>
    /\ rows = <<>>
    /\ log = <<>>
    /\ first_repr \in Representations(similarity_measure)
    /\ second_repr \in Representations(similarity_measure)
    /\ similarity = None
    /\ pc = "calculate"

Calculate ==
    /\ pc = "calculate"
    /\ similarity' = calculate(first_repr, second_repr)
    /\ pc' = "calculated"
    /\ UNCHANGED <<ontology, enabled_warnings, warnings, normalized_label_mapping,
                   similarity_measure, min_acceptable_similarity,
                   ignore_not_linkable, cache, annotations, rows, log,
                   first_repr, second_repr>>

NextCalculate == Calculate

SpecCalculate == InitCalculate /\ [][NextCalculate]_vars

----------------------------------------------------------------------------
(* Vocabulary of the properties *)

Entries == 1..Len(log)

\* the sub-map a log entry's category selects
SubMap(e) == normalized_label_mapping[e.entity_type]

\* the entry's category has a sub-map and its text is a key of it
IsKeyOfOwnCategory(e) ==
    /\ e.entity_type \in DOMAIN normalized_label_mapping
    /\ HasKey(SubMap(e), e.text)

\* the entry went through the similarity scan of link and link returned
Scanned(e) ==
    /\ e.path = "link"
    /\ e.entity_type \in DOMAIN normalized_label_mapping
    /\ ~e.raised

\* the entry wrote its decision to the memo
WroteMemo(e) == "set" \in Range(e.cache_ops)

\* the entry made no call of the similarity strategy
NoStrategyCall(e) == e.preprocessed = <<>> /\ e.scores = <<>>

\* the score of the k-th record of the entry's sub-map against the entry's text
ScoreOf(e, k) == calculate(preprocess(e.text), preprocess(SubMap(e)[k].normalized_label))

\* the reference to the k-th record of the entry's sub-map
RefOf(e, k) == Some(<<e.entity_type, SubMap(e)[k].normalized_label>>)

\* the k-th record scores exactly 1.0 and no record before it does
FirstPerfect(e, k) ==
    /\ k \in 1..Len(SubMap(e))
    /\ ~ScoreOf(e, k).raised /\ EqQ(ScoreOf(e, k).value, One)
    /\ \A j \in 1..(k - 1) : ~ScoreOf(e, j).raised /\ ~EqQ(ScoreOf(e, j).value, One)

\* every record of the sub-map has a score, the k-th has the highest one, and
\* that score exceeds the threshold
Top(e, k) ==
    /\ k \in 1..Len(SubMap(e))
    /\ \A j \in 1..Len(SubMap(e)) : ~ScoreOf(e, j).raised
    /\ \A j \in 1..Len(SubMap(e)) : Ge(ScoreOf(e, k).value, ScoreOf(e, j).value)
    /\ Gt(ScoreOf(e, k).value, min_acceptable_similarity)

\* several records tie for the highest score
TopTie(e) == \E k1, k2 \in 1..Len(SubMap(e)) : k1 # k2 /\ Top(e, k1) /\ Top(e, k2)

FirstTop(e) == CHOOSE k \in 1..Len(SubMap(e)) :
                   Top(e, k) /\ \A j \in 1..Len(SubMap(e)) : Top(e, j) => k <= j

LastTop(e) == CHOOSE k \in 1..Len(SubMap(e)) :
                  Top(e, k) /\ \A j \in 1..Len(SubMap(e)) : Top(e, j) => j <= k

----------------------------------------------------------------------------
(* Properties *)

\* C1: a mention whose normalized text is a key of the sub-map of its own
\* category gets exactly that record, for every threshold, with no call of
\* preprocess or calculate and no operation on the memo, whatever was
\* processed before it.
C1_DirectMatchIsUnconditional ==
    \A i \in Entries :
        IsKeyOfOwnCategory(log[i]) =>
            /\ ~log[i].raised
            /\ log[i].linked_item = Some(<<log[i].entity_type, log[i].text>>)
            /\ NoStrategyCall(log[i])
            /\ log[i].cache_ops = <<>>

\* C1 witness: threshold 1.0, the text was memoized by an earlier mention of
\* another category, and a later mention of it is a key of its own category.
C1_Witness ==
    /\ min_acceptable_similarity = One
    /\ \E i, j \in Entries :
        /\ i < j
        /\ log[i].text = log[j].text
        /\ log[i].path = "link"
        /\ log[j].text \in DOMAIN cache
        /\ IsKeyOfOwnCategory(log[j])
        /\ log[j].linked_item = Some(<<log[j].entity_type, log[j].text>>)

\* C2 (as claimed): a mention whose category has no entry in the label index
\* is decided "no match", whatever was processed before it.
C2_AbsentCategoryNeverMatches ==
    \A i \in Entries :
        log[i].entity_type \notin DOMAIN normalized_label_mapping =>
            log[i].linked_item = None

C4_TieLastWins ==
    \A i \in Entries :
        (Scanned(log[i]) /\ TopTie(log[i])) =>
            log[i].linked_item = RefOf(log[i], LastTop(log[i]))

\* C4 (amended): when several records tie for the highest score and that
\* score exceeds the threshold, link returns the latest of them if the score
\* is below 1.0 and the earliest of them if the score is 1.0.
C4_TieLastWinsBelowOne ==
    \A i \in Entries :
        (Scanned(log[i]) /\ TopTie(log[i])) =>
            IF EqQ(ScoreOf(log[i], LastTop(log[i])).value, One)
            THEN log[i].linked_item = RefOf(log[i], FirstTop(log[i]))
            ELSE log[i].linked_item = RefOf(log[i], LastTop(log[i]))

\* C4 witness: two records tie above the threshold and below 1.0, and the
\* later one is returned.
C4_Witness ==
    \E i \in Entries :
        /\ Scanned(log[i]) /\ TopTie(log[i])
        /\ ~EqQ(ScoreOf(log[i], LastTop(log[i])).value, One)
        /\ FirstTop(log[i]) < LastTop(log[i])
        /\ log[i].linked_item = RefOf(log[i], LastTop(log[i]))

\* C5: once a record scores exactly 1.0, no later record is scored or
\* preprocessed: the number of calculate calls is the position of the first
\* record scoring 1.0.
C5_PerfectScoreStopsScan ==
    \A i \in Entries : Scanned(log[i]) =>
        \A k \in 1..Len(SubMap(log[i])) : FirstPerfect(log[i], k) =>
            /\ Len(log[i].scores) = k
            /\ \A j \in (k + 1)..Len(SubMap(log[i])) :
                   SubMap(log[i])[j].normalized_label \notin Range(Tail(log[i].preprocessed))

\* C5 witness: a scan of a sub-map of several records whose first record
\* scores 1.0, made after one call of calculate.
C5_Witness ==
    \E i \in Entries :
        /\ Scanned(log[i]) /\ FirstPerfect(log[i], 1)
        /\ Len(SubMap(log[i])) > 1
        /\ Len(log[i].scores) = 1

\* C6 (as claimed): a record scoring exactly 1.0 in the scan is the decision
\* of link, for every threshold.
C6_PerfectScoreIsReturned ==
    \A i \in Entries : Scanned(log[i]) =>
        \A k \in 1..Len(SubMap(log[i])) : FirstPerfect(log[i], k) =>
            log[i].linked_item = RefOf(log[i], k)

\* C6 (amended): a record scoring exactly 1.0 in the scan is the decision of
\* link for every threshold below 1.0; for a threshold of 1.0 or more the
\* scan still stops there and the decision is "no match".
C6_PerfectScoreIsReturnedBelowOne ==
    \A i \in Entries : Scanned(log[i]) =>
        \A k \in 1..Len(SubMap(log[i])) : FirstPerfect(log[i], k) =>
            IF Gt(One, min_acceptable_similarity)
            THEN log[i].linked_item = RefOf(log[i], k)
            ELSE log[i].linked_item = None

\* C6 witness: threshold 0.5, the second record scanned scores 1.0 and is
\* returned.
C6_Witness ==
    /\ Gt(One, min_acceptable_similarity)
    /\ \E i \in Entries :
        /\ Scanned(log[i]) /\ FirstPerfect(log[i], 2)
        /\ log[i].linked_item = RefOf(log[i], 2)

C8_UndefinedScoreIsSkipped ==
    /\ pc # "crashed"
    /\ \A i \in Entries : ~log[i].raised

\* the row link_all owes the i-th annotation
RowOwed(i) ==
    /\ rows[i].id = i
    /\ rows[i].category = annotations[i].category
    /\ rows[i].text = annotations[i].text
    /\ IF log[i].linked_item # None
       THEN /\ rows[i].iri = Record(log[i].linked_item[1]).iri
            /\ rows[i].label = Record(log[i].linked_item[1]).label
       ELSE rows[i].iri = "NONE" /\ rows[i].label = <<"NONE">>

\* C9 (as claimed, in the configuration that writes unlinked rows): link_all
\* does not abort and has written exactly one row per annotation iterated
\* over, in input order, with the matched record's iri and label or the
\* unlinked markers.
C9_OneRowPerAnnotation ==
    ~ignore_not_linkable =>
        /\ pc # "crashed"
        /\ Len(rows) = Len(annotations)
        /\ \A i \in 1..Len(rows) : RowOwed(i)

\* the last pair of the traversal of category c that normalizes to n
LastPair(c, n) ==
    LET ks == {k \in 1..Len(ontology[c]) : normalize_text(ontology[c][k][1]) = n}
    IN  ontology[c][CHOOSE k \in ks : \A j \in ks : j <= k]

\* the number of pairs of category c whose normalized label was already seen
Collisions(c) ==
    Cardinality({k \in 1..Len(ontology[c]) :
                    \E j \in 1..(k - 1) : normalize_text(ontology[c][j][1])
                                          = normalize_text(ontology[c][k][1])})

\* what C10 says of a built index
BuiltLastWriteWins ==
    pc = "built" =>
        /\ \A c \in DOMAIN normalized_label_mapping :
            LET sub == normalized_label_mapping[c]
            IN  /\ \A i, j \in 1..Len(sub) :
                       sub[i].normalized_label = sub[j].normalized_label => i = j
                /\ {sub[i].normalized_label : i \in 1..Len(sub)}
                       = {normalize_text(ontology[c][k][1]) : k \in 1..Len(ontology[c])}
                /\ \A i \in 1..Len(sub) :
                       sub[i] = LabelWithIRI(LastPair(c, sub[i].normalized_label)[1],
                                             LastPair(c, sub[i].normalized_label)[2],
                                             sub[i].normalized_label, None)
        /\ Len(warnings) = IF enabled_warnings
                           THEN Collisions("FOOD") + Collisions("PROCESS") ELSE 0

\* C10: a build step always ends with the index built, collisions or not;
\* the sub-map built for a category holds one record per normalized label of
\* its pairs and no other, the record of the last pair with that normalized
\* label; a collision prints one warning when warnings are enabled and
\* nothing otherwise.
C10_LastWriteWins ==
    /\ []BuiltLastWriteWins
    /\ [][pc = "parse" => pc' = "built"]_vars

\* C10 witness: a built sub-map in which two pairs with different labels and
\* iris collided, the later one is stored, and the warning was printed.
C10_Witness ==
    /\ pc = "built"
    /\ enabled_warnings
    /\ Len(warnings) = 1
    /\ Len(ontology["FOOD"]) = 2
    /\ ontology["FOOD"][1][1] # ontology["FOOD"][2][1]
    /\ ontology["FOOD"][1][2] # ontology["FOOD"][2][2]
    /\ Len(normalized_label_mapping["FOOD"]) = 1
    /\ normalized_label_mapping["FOOD"][1].label = ontology["FOOD"][2][1]
    /\ normalized_label_mapping["FOOD"][1].iri = ontology["FOOD"][2][2]

C12_ScoreIsSymmetricAndBounded ==
    pc = "calculated" =>
        /\ ~similarity.raised
        /\ ~calculate(second_repr, first_repr).raised
        /\ EqQ(similarity.value, calculate(second_repr, first_repr).value)
        /\ Ge(similarity.value, Q(0, 1))
        /\ Ge(One, similarity.value)
        /\ (first_repr = second_repr /\ first_repr # {}) => EqQ(similarity.value, One)
        /\ (first_repr = {} \/ second_repr = {}) => EqQ(similarity.value, Q(0, 1))

\* C12 witness: the n-gram measure called on two different representations
\* that overlap, scored strictly between 0 and 1.
C12_Witness ==
    /\ pc = "calculated"
    /\ similarity_measure = "EVERYGRAM"
    /\ first_repr # second_repr
    /\ first_repr \cap second_repr # {}
    /\ ~similarity.raised
    /\ Gt(similarity.value, Q(0, 1))
    /\ Gt(One, similarity.value)

\* C13 (as claimed): no key of the memo is a key of the label index, in any
\* category.
C13_NoMemoKeyIsIndexKey ==
    \A t \in DOMAIN cache :
        \A c \in DOMAIN normalized_label_mapping :
            ~HasKey(normalized_label_mapping[c], t)

\* C13 (amended): no mention whose normalized text is a key of the sub-map
\* of its own category writes to the memo, and every key of the memo was
\* written by a mention whose text is no key of the sub-map of its own
\* category.
C13_NoMemoWriteOnExactMatch ==
    /\ \A i \in Entries : WroteMemo(log[i]) => ~IsKeyOfOwnCategory(log[i])
    /\ \A t \in DOMAIN cache :
           \E i \in Entries :
               /\ log[i].text = t
               /\ WroteMemo(log[i])
               /\ ~IsKeyOfOwnCategory(log[i])

\* C13 witness: a text that is a key of the FOOD sub-map is memoized by a
\* mention of another category; a FOOD mention of the same text then takes
\* the exact-match path and leaves the memo alone.
C13_Witness ==
    \E i, j \in Entries :
        /\ i < j
        /\ log[i].text = log[j].text
        /\ log[i].entity_type # "FOOD" /\ WroteMemo(log[i])
        /\ log[i].text \in DOMAIN cache
        /\ log[j].entity_type = "FOOD" /\ IsKeyOfOwnCategory(log[j])
        /\ log[j].path = "direct" /\ log[j].cache_ops = <<>>

\* the calls of preprocess made, over the whole run, on the record of
\* category c with normalized label n: pairs of a log entry and a position
\* among the texts that entry preprocessed (the first one is the mention)
PreprocessCalls(c, n) ==
    {p \in UNION {{i} \X (2..Len(log[i].preprocessed)) : i \in Entries} :
        /\ log[p[1]].entity_type = c
        /\ log[p[1]].preprocessed[p[2]] = n}

\* C14 (as claimed): over any sequence of link calls, preprocess is invoked
\* on the normalized label of a record of the index at most once, records
\* with an empty normalized label included.
C14_RepresentationComputedOnce ==
    \A c \in DOMAIN normalized_label_mapping :
        \A k \in 1..Len(normalized_label_mapping[c]) :
            Cardinality(PreprocessCalls(c, normalized_label_mapping[c][k].normalized_label)) <= 1

\* C15 (as claimed): a mention decided with a match is matched to a record of
\* the sub-map of its own category, whatever was processed before it.
C15_MatchIsOfOwnCategory ==
    \A i \in Entries :
        log[i].linked_item # None =>
            /\ log[i].entity_type \in DOMAIN normalized_label_mapping
            /\ log[i].linked_item[1][1] = log[i].entity_type
            /\ HasKey(SubMap(log[i]), log[i].linked_item[1][2])

\* C16 (as claimed): a mention writes to the memo exactly when it takes
\* neither the exact-match path nor a memo hit; no text is written twice;
\* the memo holds, for every text written, the decision stored by that write
\* (nothing is overwritten or removed), and holds nothing else.
C16_MemoWrittenOncePerText ==
    /\ \A i \in Entries : WroteMemo(log[i]) <=> log[i].path = "link"
    /\ \A i, j \in Entries :
           (WroteMemo(log[i]) /\ WroteMemo(log[j]) /\ log[i].text = log[j].text)
               => i = j
    /\ \A i \in Entries :
           WroteMemo(log[i]) =>
               /\ log[i].text \in DOMAIN cache
               /\ cache[log[i].text] = log[i].linked_item
    /\ \A t \in DOMAIN cache :
           \E i \in Entries : WroteMemo(log[i]) /\ log[i].text = t

====
